---- MODULE Spec2Model ----
(***************************************************************************)
(* Model of enriquecer_conexiones.py: the term-frequency analysis over a   *)
(* directory of markdown notes and the in-place wikilink annotation.       *)
(* Texts are sequences of one-character strings.                           *)
(***************************************************************************)
EXTENDS Integers, Sequences, FiniteSets, TLC

\* ------------------------------------------------------------------------
\* Characters
\* ------------------------------------------------------------------------

NL == "\n"

UpperLetters == {"A", "B"}

LowerLetters ==
  {"a", "b", "c", "d", "e", "f", "g", "h", "i", "j", "k", "l", "m",
   "n", "o", "p", "q", "r", "s", "t", "u", "v", "w", "x", "y", "z"}

Digits == {"0", "1", "2", "3", "4", "5", "6", "7", "8", "9"}

\* str.lower() on one character
LowerChar(c) ==
  CASE c = "A" -> "a"
    [] c = "B" -> "b"
    [] OTHER -> c

\* \w of the re module: letters, digits and the underscore
IsWordChar(c) == c \in LowerLetters \cup UpperLetters \cup Digits \cup {"_"}

\* str.isalpha() on one character
IsAlphaChar(c) == c \in LowerLetters \cup UpperLetters

\* the characters str.strip() removes
IsSpace(c) == c \in {" ", NL, "\t"}

\* str.lower()
LowerText(s) == [i \in 1..Len(s) |-> LowerChar(s[i])]

\* the least element of a set of indices, or 0 for the empty set
First(S) == IF S = {} THEN 0 ELSE CHOOSE x \in S : \A y \in S : x <= y

\* a function over 1..n as a tuple
AsTuple(f) == SubSeq(f, 1, Len(f))

\* the elements of a set S of indices that lie in lo..hi, in increasing order
RECURSIVE Ascending(_, _, _)
Ascending(S, lo, hi) ==
  IF \A x \in S : x < lo \/ x > hi THEN <<>>
  ELSE IF lo = hi THEN << lo >>
  ELSE Ascending(S, lo, (lo + hi) \div 2)
       \o Ascending(S, ((lo + hi) \div 2) + 1, hi)

\* s[i:j] of Python with 1-based inclusive TLA+ indices, clamped
Slice(s, lo, hi) ==
  IF lo > hi THEN <<>> ELSE SubSeq(s, lo, hi)

\* ------------------------------------------------------------------------
\* add_wikilinks_to_text
\* ------------------------------------------------------------------------

\* First index j >= i with s[j] = "]", or 0
NextClose(s, i) == First({ j \in i..Len(s) : s[j] = "]" })

\* Length of the match of \[\[[^\]]+\]\] starting at index i of s, or 0
MarkerLenAt(s, i) ==
  IF i + 1 <= Len(s) /\ s[i] = "[" /\ s[i + 1] = "["
  THEN LET j == NextClose(s, i + 2)
       IN  IF j > i + 2 /\ j + 1 <= Len(s) /\ s[j + 1] = "]"
           THEN j + 2 - i
           ELSE 0
  ELSE 0

\* the first index >= i of s at which an existing wikilink starts, or 0
NextMarker(s, i) == First({ j \in i..Len(s) : MarkerLenAt(s, j) > 0 })

\* re.split(f"({existing_wikilink_pattern})", text) from index i on: the
\* plain text up to the next wikilink, the wikilink, and so on
RECURSIVE SplitFrom(_, _)
SplitFrom(s, i) ==
  LET j == NextMarker(s, i)
  IN  IF j = 0 THEN << Slice(s, i, Len(s)) >>
      ELSE << Slice(s, i, j - 1), SubSeq(s, j, j + MarkerLenAt(s, j) - 1) >>
           \o SplitFrom(s, j + MarkerLenAt(s, j))

SplitParts(text) == SplitFrom(text, 1)

\* re.match(existing_wikilink_pattern, part): a match at the start of part
IsExistingWikilink(part) == MarkerLenAt(part, 1) > 0

\* \b at the gap before index i of s (i in 1..Len(s)+1)
WordBoundary(s, i) ==
  LET left  == i - 1 >= 1 /\ IsWordChar(s[i - 1])
      right == i <= Len(s) /\ IsWordChar(s[i])
  IN  left # right

\* re.escape(word) matched case-insensitively at index i of s
LiteralAt(s, word, i) ==
  /\ i + Len(word) - 1 <= Len(s)
  /\ \A k \in 1..Len(word) : LowerChar(s[i + k - 1]) = LowerChar(word[k])

\* r"\b" + re.escape(word) + r"\b" matches at index i of s
PatternAt(s, word, i) ==
  /\ Len(word) > 0
  /\ LiteralAt(s, word, i)
  /\ WordBoundary(s, i)
  /\ WordBoundary(s, i + Len(word))

\* replace_func's guard: '[[' in before or ']]' in after (both at most 2 chars)
GuardSkips(before, after) ==
  before = <<"[", "[">> \/ after = <<"]", "]">>

\* replace_func for the match of length n at index i of modified_part
ReplaceFunc(modified_part, i, n) ==
  LET matched_text == SubSeq(modified_part, i, i + n - 1)
      before == Slice(modified_part, IF i - 2 >= 1 THEN i - 2 ELSE 1, i - 1)
      after  == Slice(modified_part, i + n,
                      IF i + n + 1 <= Len(modified_part)
                      THEN i + n + 1 ELSE Len(modified_part))
  IN  IF GuardSkips(before, after)
      THEN matched_text
      ELSE <<"[", "[">> \o matched_text \o <<"]", "]">>

\* the indices of s at which the pattern of word matches
MatchStarts(s, word) == { j \in 1..Len(s) : PatternAt(s, word, j) }

\* re.sub(pattern, replace_func, modified_part, flags=re.IGNORECASE) from
\* index i on, starts being the match indices: the matches are taken left to
\* right without overlap, each replaced by what replace_func returns
RECURSIVE SubFrom(_, _, _, _)
SubFrom(s, word, starts, i) ==
  LET j == First({ k \in starts : k >= i })
  IN  IF j = 0 THEN Slice(s, i, Len(s))
      ELSE Slice(s, i, j - 1) \o ReplaceFunc(s, j, Len(word))
           \o SubFrom(s, word, starts, j + Len(word))

SubWord(modified_part, word) ==
  SubFrom(modified_part, word, MatchStarts(modified_part, word), 1)

\* the rank a stable sort by key descending gives to element i of keys
RankDescending(keys, i) ==
  1 + Cardinality({ j \in 1..Len(keys) :
                    keys[j] > keys[i] \/ (keys[j] = keys[i] /\ j < i) })

\* the order a stable sort by key descending gives: the index of the element
\* that comes r-th
StableOrderDescending(keys) ==
  CHOOSE order \in
    { AsTuple([r \in 1..Len(rk) |-> CHOOSE i \in 1..Len(rk) : rk[i] = r]) :
      rk \in { AsTuple([i \in 1..Len(keys) |-> RankDescending(keys, i)]) } } : TRUE

\* sorted(words_to_link, key=len, reverse=True): stable
SortedWords(words) ==
  LET order == StableOrderDescending([i \in 1..Len(words) |-> Len(words[i])])
  IN  [r \in 1..Len(words) |-> words[order[r]]]

\* the loop over sorted_words on one plain part, from the k-th word on
RECURSIVE LinkFrom(_, _, _)
LinkFrom(modified_part, sorted_words, k) ==
  IF k > Len(sorted_words) THEN modified_part
  ELSE CHOOSE r \in { LinkFrom(p, sorted_words, k + 1) :
                      p \in { SubWord(modified_part, sorted_words[k]) } } : TRUE

LinkWords(part, sorted_words) == LinkFrom(part, sorted_words, 1)

\* every part is rewritten, existing wikilinks included
ProcessPartAll(part, words) == LinkWords(part, SortedWords(words))

\* the body of the loop over parts
ProcessPart(part, words) ==
  IF IsExistingWikilink(part) THEN part
  ELSE LinkWords(part, SortedWords(words))

RECURSIVE JoinParts(_, _)
JoinParts(parts, words) ==
  IF parts = <<>> THEN <<>>
  ELSE ProcessPart(Head(parts), words) \o JoinParts(Tail(parts), words)

AddWikilinksToText(text, words) == JoinParts(SplitParts(text), words)

\* ------------------------------------------------------------------------
\* Splitting a document at the frontmatter boundaries
\* ------------------------------------------------------------------------

Boundary == <<"-", "-", "-">>

\* str.find of "---" in s from index i: the first index of an occurrence, or 0
FindBoundary(s, i) ==
  First({ j \in i..(Len(s) - 2) : SubSeq(s, j, j + 2) = Boundary })

\* content.split("---", 2): at most two splits, from the left
SplitFrontmatter(content) ==
  LET i == FindBoundary(content, 1)
  IN  IF i = 0 THEN << content >>
      ELSE LET j == FindBoundary(content, i + 3)
           IN  IF j = 0
               THEN << Slice(content, 1, i - 1),
                       Slice(content, i + 3, Len(content)) >>
               ELSE << Slice(content, 1, i - 1),
                       Slice(content, i + 3, j - 1),
                       Slice(content, j + 3, Len(content)) >>

\* str.lstrip()
LStrip(s) ==
  LET i == First({ j \in 1..Len(s) : ~IsSpace(s[j]) })
  IN  IF i = 0 THEN <<>> ELSE SubSeq(s, i, Len(s))

\* str.rstrip()
RStrip(s) ==
  LET n == Cardinality({ j \in 1..Len(s) : \A k \in j..Len(s) : IsSpace(s[k]) })
  IN  SubSeq(s, 1, Len(s) - n)

\* str.strip()
Strip(s) == RStrip(LStrip(s))

ExtractBodyText(content) ==
  LET parts == SplitFrontmatter(content)
  IN  IF Len(parts) >= 3 THEN Strip(parts[3]) ELSE Strip(content)

\* ------------------------------------------------------------------------
\* process_markdown_file, as a function of the content read from the file
\* ------------------------------------------------------------------------

\* the body is written back whether or not annotation changed it
BodyChangedAlways(new_body, body) == TRUE

\* new_body != body / new_body != content: the file is written only then
BodyChanged(new_body, body) == new_body # body

\* what process_markdown_file does after the split, given the annotated body
Outcome(parts, content, new_body) ==
  IF Len(parts) < 3
  THEN [header |-> FALSE, frontmatter |-> <<>>, body |-> content,
        new_body |-> new_body, write |-> BodyChanged(new_body, content),
        new_content |-> new_body]
  ELSE LET frontmatter == parts[1] \o Boundary \o parts[2] \o Boundary
       IN  [header |-> TRUE, frontmatter |-> frontmatter, body |-> parts[3],
            new_body |-> new_body, write |-> BodyChanged(new_body, parts[3]),
            new_content |-> frontmatter \o <<NL>> \o new_body]

\* the whole content is annotated, frontmatter included
ProcessContentWhole(content, words) ==
  CHOOSE r \in { Outcome(<< content >>, content, nb) :
                 nb \in { AddWikilinksToText(content, words) } } : TRUE

\* what process_markdown_file computes between read_text and write_text:
\* the body it annotates, the annotated body, whether it writes and what
ProcessContent(content, words) ==
  LET parts == SplitFrontmatter(content)
      body  == IF Len(parts) < 3 THEN content ELSE parts[3]
  IN  CHOOSE r \in { Outcome(parts, content, nb) :
                     nb \in { AddWikilinksToText(body, words) } } : TRUE

\* ------------------------------------------------------------------------
\* Tokenizing and ranking
\* ------------------------------------------------------------------------

MIN_WORD_LENGTH == 4
MIN_FREQUENCY == 2
TOP_N_WORDS == 20

\* the entries of STOPWORDS that the documents of the model can spell
STOPWORDS ==
  { <<"p", "a", "r", "a">>, <<"c", "o", "m", "o">>, <<"p", "e", "r", "o">>,
    <<"w", "i", "t", "h">>, <<"h", "e", "r", "e">>,
    <<"i", "d", "e", "a">>, <<"i", "d", "e", "a", "s">> }

\* re.sub(r"[^\w]+$", "", word)
DropTrailingNonWord(w) ==
  LET n == Cardinality({ j \in 1..Len(w) : \A k \in j..Len(w) : ~IsWordChar(w[k]) })
  IN  SubSeq(w, 1, Len(w) - n)

NormalizeWord(word) == DropTrailingNonWord(Strip(LowerText(word)))

\* str.isalpha(): non-empty and every character a letter
IsAlpha(w) == w # <<>> /\ \A i \in 1..Len(w) : IsAlphaChar(w[i])

\* the filter of extract_words
KeepWord(normalized) ==
  /\ Len(normalized) >= MIN_WORD_LENGTH
  /\ normalized \notin STOPWORDS
  /\ IsAlpha(normalized)

\* the indices of s at which a maximal run of word characters starts
RunStarts(s) ==
  { i \in 1..Len(s) : IsWordChar(s[i]) /\ (i = 1 \/ ~IsWordChar(s[i - 1])) }

\* the indices of s at which a maximal run of word characters ends
RunEnds(s) ==
  { i \in 1..Len(s) : IsWordChar(s[i]) /\ (i = Len(s) \/ ~IsWordChar(s[i + 1])) }

\* re.findall(r"\b\w+\b", s), each match normalized: the runs of word
\* characters of s; starts and ends list their bounds in increasing order
NormalizedRuns(s, starts, ends) ==
  AsTuple([r \in 1..Len(starts) |->
             NormalizeWord(SubSeq(s, starts[r], ends[r]))])

ExtractWords(body) ==
  CHOOSE filtered \in
    { SelectSeq(NormalizedRuns(s, Ascending(RunStarts(s), 1, Len(s)),
                               Ascending(RunEnds(s), 1, Len(s))), KeepWord) :
      s \in { AsTuple(LowerText(body)) } } : TRUE

\* the indices at which a word occurs for the first time
FirstOccurrences(words) ==
  { i \in 1..Len(words) : \A j \in 1..(i - 1) : words[j] # words[i] }

\* the (word, count) pairs of the words that first occur at the indices
\* firsts, listed in increasing order
CountAt(words, firsts) ==
  AsTuple([r \in 1..Len(firsts) |->
             << words[firsts[r]],
                Cardinality({ k \in 1..Len(words) : words[k] = words[firsts[r]] }) >>])

\* Counter(all_words).items(): (word, count) in the order of first occurrence
Counter(words) ==
  CHOOSE c \in
    { CountAt(words, firsts) :
      firsts \in { Ascending(FirstOccurrences(words), 1, Len(words)) } } : TRUE

\* a word needs more than MIN_FREQUENCY occurrences
IsFrequentStrict(count) == count > MIN_FREQUENCY

\* count >= MIN_FREQUENCY
IsFrequent(count) == count >= MIN_FREQUENCY

\* [(word, count) for word, count in word_counts.items() if count >= MIN_FREQUENCY]
SelectFrequent(counts) == SelectSeq(counts, LAMBDA e : IsFrequent(e[2]))

\* frequent.sort(key=lambda x: x[1], reverse=True): stable
SortByCount(frequent) ==
  LET order == StableOrderDescending([i \in 1..Len(frequent) |-> frequent[i][2]])
  IN  AsTuple([r \in 1..Len(frequent) |-> frequent[order[r]]])

\* frequent[:TOP_N_WORDS]
Truncate(frequent) ==
  IF Len(frequent) > TOP_N_WORDS THEN SubSeq(frequent, 1, TOP_N_WORDS)
  ELSE frequent

\* find_frequent_words after its loop over the files
RankWords(words) ==
  CHOOSE r \in { Truncate(SortByCount(f)) :
                 f \in { SelectFrequent(Counter(words)) } } : TRUE

\* words_to_link = [word for word, count in frequent_words]
WordsOf(frequent) == [i \in 1..Len(frequent) |-> frequent[i][1]]

\* ------------------------------------------------------------------------
\* State
\* ------------------------------------------------------------------------

VARIABLES
  text,             \* the text handed to add_wikilinks_to_text
  linked,           \* << add_wikilinks_to_text(text, words_to_link) >> once called
  files,            \* the .md files of INPUT_DIR: name (1..n) -> content
  files0,           \* the contents at the start of the run
  words_to_link,    \* the term list handed to process_markdown_file
  wfile,            \* the file write_text has opened (truncated), 0 if none
  wdata,            \* the content write_text is about to write into wfile
  observed,         \* what a concurrent reader saw at its last read
  log,              \* per process_markdown_file call: what it read and computed
  runs,             \* completed calls of process_markdown_file
  body_text,        \* << extract_body_text(content) >> once computed
  pc,               \* position of main
  dir_exists,       \* INPUT_DIR.exists()
  markdown_files,   \* list(INPUT_DIR.glob("*.md")): names in listing order
  idx,              \* loop index into markdown_files
  all_words,        \* find_frequent_words: the words collected so far
  errors,           \* find_frequent_words: the files whose read failed
  frequent_words,   \* the (word, count) pairs find_frequent_words returned
  modified_count,   \* main's counters
  unchanged_count,
  failed            \* the files whose processing raised in the annotation loop

docVars  == << files, files0, words_to_link, wfile, wdata, log, runs, body_text >>
mainVars == << pc, dir_exists, markdown_files, idx, all_words, errors,
               frequent_words, modified_count, unchanged_count, failed >>
textVars == << text, linked >>
vars == << textVars, docVars, mainVars, observed >>

\* ------------------------------------------------------------------------
\* process_markdown_file on one file: read and compute, then write_text,
\* which opens the file for writing (truncating it) and then writes
\* ------------------------------------------------------------------------

\* read_text, the split, add_wikilinks_to_text and, when the body changed,
\* the open of write_text
ProcessRead(f) ==
  \E r \in { ProcessContent(files[f], words_to_link) } :
      /\ wfile = 0
      /\ log' = Append(log, [file |-> f, content |-> files[f], header |-> r.header,
                             frontmatter |-> r.frontmatter, body |-> r.body,
                             new_body |-> r.new_body, write |-> r.write])
      /\ IF r.write
         THEN /\ files' = [files EXCEPT ![f] = <<>>]
              /\ wfile' = f
              /\ wdata' = r.new_content
              /\ runs' = runs
         ELSE /\ runs' = runs + 1
              /\ UNCHANGED << files, wfile, wdata >>

\* write_text's write and close
ProcessWrite ==
  /\ wfile # 0
  /\ files' = [files EXCEPT ![wfile] = wdata]
  /\ wfile' = 0
  /\ wdata' = <<>>
  /\ runs' = runs + 1
  /\ UNCHANGED log

\* ------------------------------------------------------------------------
\* add_wikilinks_to_text applied to any text and term list
\* ------------------------------------------------------------------------

MaxText == 5

TextChunks ==
  { <<"[", "[">>, <<"]", "]">>, <<"[">>, <<"]">>, <<"a">>, <<"A">>, <<" ">> }

TermLists ==
  { << <<"a">> >>, << <<"a">>, <<"a", "a">> >> }

RECURSIVE Flatten(_)
Flatten(ss) ==
  IF ss = <<>> THEN <<>> ELSE Head(ss) \o Flatten(Tail(ss))

Texts ==
  { Flatten(cs) : cs \in UNION { [1..n -> TextChunks] : n \in 0..MaxText } }

InitText ==
  /\ text \in Texts
  /\ linked = <<>>
  /\ words_to_link \in TermLists
  /\ files = <<>>
  /\ files0 = <<>>
  /\ wfile = 0
  /\ wdata = <<>>
  /\ observed = <<>>
  /\ log = <<>>
  /\ runs = 0
  /\ body_text = <<>>
  /\ pc = "text"
  /\ dir_exists = TRUE
  /\ markdown_files = <<>>
  /\ idx = 0
  /\ all_words = <<>>
  /\ errors = <<>>
  /\ frequent_words = <<>>
  /\ modified_count = 0
  /\ unchanged_count = 0
  /\ failed = {}

Annotate ==
  /\ linked = <<>>
  /\ linked' = << AddWikilinksToText(text, words_to_link) >>
  /\ UNCHANGED << text, docVars, mainVars, observed >>

NextText == Annotate

SpecText == InitText /\ [][NextText]_vars

\* ------------------------------------------------------------------------
\* One document, any term list: process_markdown_file called MaxRuns times
\* ------------------------------------------------------------------------

MaxChunks == 4
MaxRuns == 2

Chunks ==
  { Boundary, <<"[", "[">>, <<"]", "]">>, <<"]">>, <<"a">>, <<"A">>, <<" ">> }

Documents ==
  { Flatten(cs) : cs \in UNION { [1..n -> Chunks] : n \in 0..MaxChunks } }

InitDoc ==
  /\ text = <<>>
  /\ linked = <<>>
  /\ files \in { << d >> : d \in Documents }
  /\ files0 = files
  /\ words_to_link \in TermLists
  /\ wfile = 0
  /\ wdata = <<>>
  /\ observed = <<>>
  /\ log = <<>>
  /\ runs = 0
  /\ body_text = <<>>
  /\ pc = "doc"
  /\ dir_exists = TRUE
  /\ markdown_files = << 1 >>
  /\ idx = 0
  /\ all_words = <<>>
  /\ errors = <<>>
  /\ frequent_words = <<>>
  /\ modified_count = 0
  /\ unchanged_count = 0
  /\ failed = {}

DocProcess ==
  /\ runs < MaxRuns
  /\ body_text # <<>>
  /\ ProcessRead(1)
  /\ UNCHANGED << files0, words_to_link, body_text, textVars, mainVars, observed >>

DocWrite ==
  /\ ProcessWrite
  /\ UNCHANGED << files0, words_to_link, body_text, textVars, mainVars, observed >>

\* extract_body_text on the document, in the analysis that precedes annotation
DocExtract ==
  /\ body_text = <<>>
  /\ body_text' = << ExtractBodyText(files[1]) >>
  /\ UNCHANGED << files, files0, words_to_link, wfile, wdata, log, runs,
                  textVars, mainVars, observed >>

NextDoc == DocProcess \/ DocWrite \/ DocExtract

SpecDoc == InitDoc /\ [][NextDoc]_vars

\* another process reads the document at any moment
Read ==
  /\ observed' = << files[1] >>
  /\ UNCHANGED << textVars, docVars, mainVars >>

NextConc == NextDoc \/ Read

\* the document is annotated while another process reads it
SpecConc == InitDoc /\ [][NextConc]_vars


\* ------------------------------------------------------------------------
\* main: the run over INPUT_DIR
\* ------------------------------------------------------------------------

MaxFiles == 2

\* a note with frontmatter whose body holds one word twice
NoteAlba ==
    << "-", "-", "-", NL, "t", ":", " ", "a", "l", "b", "a", NL, "-", "-",
       "-", NL, "A", "l", "b", "a", " ", "a", "l", "b", "a", "." >>

\* a note without frontmatter: a word twice, a stopword twice, a short word
\* and a token with a digit
NoteCasa ==
    << "c", "a", "s", "a", " ", "c", "a", "s", "a", " ", "i", "d", "e", "a",
       " ", "i", "d", "e", "a", " ", "s", "o", "l", " ", "a", "1", "b", "c",
       " ", "a", "1", "b", "c" >>

\* a note whose words occur once
NoteMesa ==
    << "m", "e", "s", "a", " ", "a", "l", "b", "a", " ", "c", "a", "s", "a" >>

PoolLetters == <<"a", "b", "c", "d", "e">>

\* the i-th of 25 distinct four-letter words
PoolWord(i) ==
  << PoolLetters[((i - 1) \div 5) + 1], PoolLetters[((i - 1) % 5) + 1], "x", "y" >>

\* a note holding TOP_N_WORDS + 1 distinct words twice each, the last thrice,
\* a space between two words
NoteMany ==
  [i \in 1..(5 * (2 * TOP_N_WORDS + 3) - 1) |->
     LET q == ((i - 1) \div 5) + 1
         k == IF q > 2 * TOP_N_WORDS + 2 THEN TOP_N_WORDS + 1 ELSE (q + 1) \div 2
         o == ((i - 1) % 5) + 1
     IN  IF o = 5 THEN " " ELSE PoolWord(k)[o]]

DocPool == << NoteAlba, NoteCasa, NoteMany, NoteMesa >>

\* the directories of up to MaxFiles notes; the names 1..n are given in the
\* order of the pool, the listing order is chosen by Glob
Corpora ==
  UNION { { [i \in 1..n |-> DocPool[c[i]]] :
            c \in { d \in [1..n -> 1..Len(DocPool)] :
                    \A i \in 1..(n - 1) : d[i] <= d[i + 1] } } :
          n \in 0..MaxFiles }

\* the orders in which a directory of n files can be listed
Listings(n) ==
  { l \in [1..n -> 1..n] : \A i, j \in 1..n : i # j => l[i] # l[j] }

Init ==
  /\ dir_exists \in BOOLEAN
  /\ files \in (IF dir_exists THEN Corpora ELSE { <<>> })
  /\ files0 = files
  /\ text = <<>>
  /\ linked = <<>>
  /\ words_to_link = <<>>
  /\ wfile = 0
  /\ wdata = <<>>
  /\ observed = <<>>
  /\ log = <<>>
  /\ runs = 0
  /\ body_text = <<>>
  /\ pc = "check_dir"
  /\ markdown_files = <<>>
  /\ idx = 0
  /\ all_words = <<>>
  /\ errors = <<>>
  /\ frequent_words = <<>>
  /\ modified_count = 0
  /\ unchanged_count = 0
  /\ failed = {}

\* if not INPUT_DIR.exists(): return
CheckDir ==
  /\ pc = "check_dir"
  /\ pc' = IF dir_exists THEN "glob" ELSE "done"
  /\ UNCHANGED << textVars, docVars, observed, dir_exists, markdown_files, idx,
                  all_words, errors, frequent_words, modified_count,
                  unchanged_count, failed >>

\* markdown_files = list(INPUT_DIR.glob("*.md")); if not markdown_files: return
Glob ==
  /\ pc = "glob"
  /\ \E l \in Listings(Len(files)) :
       /\ markdown_files' = l
       /\ pc' = IF l = <<>> THEN "done" ELSE "analyze"
  /\ idx' = 1
  /\ UNCHANGED << textVars, docVars, observed, dir_exists, all_words, errors,
                  frequent_words, modified_count, unchanged_count, failed >>

\* except ...: errors.append(...); continue
AfterError(i, n) == i + 1

\* one iteration of the loop of find_frequent_words, the read succeeding
AnalyzeFile ==
  /\ pc = "analyze" /\ idx <= Len(markdown_files)
  /\ all_words' = all_words
                  \o ExtractWords(ExtractBodyText(files[markdown_files[idx]]))
  /\ idx' = idx + 1
  /\ UNCHANGED << textVars, docVars, observed, pc, dir_exists, markdown_files,
                  errors, frequent_words, modified_count, unchanged_count,
                  failed >>

\* one iteration of the loop of find_frequent_words, read_text raising
AnalyzeError ==
  /\ pc = "analyze" /\ idx <= Len(markdown_files)
  /\ errors' = Append(errors, markdown_files[idx])
  /\ idx' = AfterError(idx, Len(markdown_files))
  /\ UNCHANGED << textVars, docVars, observed, pc, dir_exists, markdown_files,
                  all_words, frequent_words, modified_count, unchanged_count,
                  failed >>

\* main goes on to annotate with an empty term list
ProceedAlways(frequent) == FALSE

\* if not frequent_words: return
HaltsOn(frequent) == frequent = <<>>

\* the end of find_frequent_words and main up to the annotation loop
Rank ==
  /\ pc = "analyze" /\ idx > Len(markdown_files)
  /\ \E frequent \in { RankWords(all_words) } :
       /\ frequent_words' = frequent
       /\ IF HaltsOn(frequent)
          THEN pc' = "done" /\ UNCHANGED words_to_link
          ELSE pc' = "annotate" /\ words_to_link' = WordsOf(frequent)
  /\ idx' = 1
  /\ UNCHANGED << textVars, files, files0, wfile, wdata, log, runs, body_text,
                  observed, dir_exists, markdown_files, all_words, errors,
                  modified_count, unchanged_count, failed >>

\* process_markdown_file on the next file, up to the open of write_text;
\* a call that does not write returns False
AnnotateFile ==
  /\ pc = "annotate" /\ idx <= Len(markdown_files)
  /\ ProcessRead(markdown_files[idx])
  /\ IF wfile' = 0
     THEN idx' = idx + 1 /\ unchanged_count' = unchanged_count + 1
     ELSE UNCHANGED << idx, unchanged_count >>
  /\ UNCHANGED << textVars, files0, words_to_link, body_text, observed, pc,
                  dir_exists, markdown_files, all_words, errors,
                  frequent_words, modified_count, failed >>

\* write_text completes and process_markdown_file returns True
AnnotateWrite ==
  /\ pc = "annotate"
  /\ ProcessWrite
  /\ idx' = idx + 1
  /\ modified_count' = modified_count + 1
  /\ UNCHANGED << textVars, files0, words_to_link, body_text, observed, pc,
                  dir_exists, markdown_files, all_words, errors,
                  frequent_words, unchanged_count, failed >>

\* read_text raises in process_markdown_file: the except returns False
AnnotateError ==
  /\ pc = "annotate" /\ idx <= Len(markdown_files) /\ wfile = 0
  /\ failed' = failed \cup { markdown_files[idx] }
  /\ runs' = runs + 1
  /\ idx' = idx + 1
  /\ unchanged_count' = unchanged_count + 1
  /\ UNCHANGED << textVars, files, files0, words_to_link, wfile, wdata, log,
                  body_text, observed, pc, dir_exists, markdown_files,
                  all_words, errors, frequent_words, modified_count >>

\* write_text raises after its open, before any data reaches the file: the
\* except returns False
AnnotateWriteError ==
  /\ pc = "annotate" /\ wfile # 0
  /\ failed' = failed \cup { wfile }
  /\ wfile' = 0
  /\ wdata' = <<>>
  /\ runs' = runs + 1
  /\ idx' = idx + 1
  /\ unchanged_count' = unchanged_count + 1
  /\ UNCHANGED << textVars, files, files0, words_to_link, log, body_text,
                  observed, pc, dir_exists, markdown_files, all_words, errors,
                  frequent_words, modified_count >>

\* the annotation loop ends; main prints the summary
Finish ==
  /\ pc = "annotate" /\ idx > Len(markdown_files) /\ wfile = 0
  /\ pc' = "done"
  /\ UNCHANGED << textVars, docVars, observed, dir_exists, markdown_files, idx,
                  all_words, errors, frequent_words, modified_count,
                  unchanged_count, failed >>

Next ==
  \/ CheckDir \/ Glob \/ AnalyzeFile \/ AnalyzeError \/ Rank
  \/ AnnotateFile \/ AnnotateWrite \/ AnnotateError \/ AnnotateWriteError
  \/ Finish

Spec == Init /\ [][Next]_vars

\* ------------------------------------------------------------------------
\* Properties of the annotation of one document (SpecDoc)
\* ------------------------------------------------------------------------

\* the content of the file when call i of process_markdown_file returned
ContentAfter(i) == IF i < Len(log) THEN log[i + 1].content ELSE files[log[i].file]

\* s holds "[[" somewhere
HasOpening(s) == \E i \in 1..(Len(s) - 1) : s[i] = "[" /\ s[i + 1] = "["

\* no span [[...]] of s has a content that holds "[["
NoNestedMarker(s) ==
  \A i \in 1..Len(s) :
    LET n == MarkerLenAt(s, i)
    IN  n > 0 => ~HasOpening(SubSeq(s, i + 2, i + n - 3))

\* the markers a left-to-right scan of s from index i finds: (start, length)
RECURSIVE MarkerSpans(_, _)
MarkerSpans(s, i) ==
  IF i > Len(s) THEN {}
  ELSE LET n == MarkerLenAt(s, i)
       IN  IF n > 0 THEN { <<i, n>> } \cup MarkerSpans(s, i + n)
           ELSE MarkerSpans(s, i + 1)

\* some term of words occurs as a whole word in s
HoldsTerm(s, words) ==
  \E k \in 1..Len(words) : \E i \in 1..Len(s) : PatternAt(s, words[k], i)

\* the document begins with "---" and "---" occurs a second time
HasHeader(content) ==
  FindBoundary(content, 1) = 1 /\ FindBoundary(content, 4) # 0

\* from the opening "---" through the closing "---"
HeaderBlock(content) == SubSeq(content, 1, FindBoundary(content, 4) + 2)

\* C1: annotating the annotated body again with the same term list gives the
\* same body, and a second call of process_markdown_file on the document it
\* has annotated (with or without a header) writes nothing: the content
\* stays what the first call left.
C1_Idempotent ==
  /\ \A i \in 1..Len(log) :
       AddWikilinksToText(log[i].new_body, words_to_link) = log[i].new_body
  /\ \A i \in 2..Len(log) : ~log[i].write
  /\ \A i \in 2..runs : ContentAfter(i) = ContentAfter(1)

C1_Witness ==
  /\ runs >= 2
  /\ log[1].write /\ log[1].header
  /\ files[1] = log[1].frontmatter \o <<NL>> \o log[1].new_body

\* C2: whatever the text (taken here among the texts that hold no nested
\* marker themselves, stray "[[" and "]]" included), the output of
\* add_wikilinks_to_text holds no marker [[...]] whose content holds an
\* opening "[[".
C2_NeverNests ==
  (linked # <<>> /\ NoNestedMarker(text)) => NoNestedMarker(linked[1])

\* C3: every existing marker of the text is in the output with the same
\* characters, between the annotation of what precedes it and the annotation
\* of what follows it; every span [[...]] of the text lies in such a marker,
\* so no term inside one is wrapped.
C3_MarkersKept ==
  linked # <<>> =>
    LET spans == MarkerSpans(text, 1)
    IN  /\ \A m \in spans :
             linked[1] =
               AddWikilinksToText(Slice(text, 1, m[1] - 1), words_to_link)
               \o SubSeq(text, m[1], m[1] + m[2] - 1)
               \o AddWikilinksToText(Slice(text, m[1] + m[2], Len(text)),
                                     words_to_link)
        /\ \A p \in 1..Len(text) :
             MarkerLenAt(text, p) > 0 =>
               \E m \in spans :
                 m[1] <= p /\ p + MarkerLenAt(text, p) <= m[1] + m[2]

\* an existing marker holding a term that a re-scan of the marker would wrap
C3_Witness ==
  /\ linked # <<>>
  /\ \E m \in MarkerSpans(text, 1) :
       LET marker == SubSeq(text, m[1], m[1] + m[2] - 1)
       IN  LinkWords(marker, SortedWords(words_to_link)) # marker

\* C4: when the document has a header, the characters from the opening "---"
\* through the closing "---" are the same after process_markdown_file as
\* before, also when the header holds a term of the list.
C4_HeaderKept ==
  \A i \in 1..runs :
    HasHeader(log[i].content) =>
      LET h == HeaderBlock(log[i].content)
      IN  /\ Len(ContentAfter(i)) >= Len(h)
          /\ SubSeq(ContentAfter(i), 1, Len(h)) = h

C4_Witness ==
  /\ runs >= 1
  /\ HasHeader(log[1].content)
  /\ log[1].write
  /\ HoldsTerm(HeaderBlock(log[1].content), words_to_link)

\* C5: a document that does not both begin with "---" and hold a second
\* "---" has no header: its whole content is the body process_markdown_file
\* annotates and the text extract_body_text returns (stripped).
C5_HeaderOnlyAtStart ==
  /\ \A i \in 1..Len(log) :
       ~HasHeader(log[i].content) =>
         ~log[i].header /\ log[i].body = log[i].content
  /\ (body_text # <<>> /\ ~HasHeader(files0[1])) =>
       body_text[1] = Strip(files0[1])


\* ------------------------------------------------------------------------
\* Properties of the run of main (Spec)
\* ------------------------------------------------------------------------

\* find_frequent_words has just returned
JustRanked ==
  /\ markdown_files # <<>>
  /\ pc \in {"annotate", "done"}
  /\ idx = 1 /\ wfile = 0 /\ runs = 0

\* the words of the bodies of the files of a listing, in its order
RECURSIVE WordsOfFiles(_)
WordsOfFiles(listing) ==
  IF listing = <<>> THEN <<>>
  ELSE ExtractWords(ExtractBodyText(files0[Head(listing)]))
       \o WordsOfFiles(Tail(listing))

Occurrences(words, w) == Cardinality({ i \in 1..Len(words) : words[i] = w })

\* C6: the term list and every document's output are the same whatever the
\* order in which the directory listing gives the same documents.
C6_Deterministic ==
  (JustRanked /\ errors = <<>>) =>
    \A l \in Listings(Len(files0)) :
      \A other \in { RankWords(WordsOfFiles(l)) } :
        /\ other = frequent_words
        /\ \A f \in 1..Len(files0) :
             ProcessContent(files0[f], WordsOf(other))
               = ProcessContent(files0[f], WordsOf(frequent_words))

\* C7: the term list holds exactly the words collected at least
\* MIN_FREQUENCY times, with their counts, by count descending and among
\* equal counts by first occurrence, cut to the first TOP_N_WORDS.
\* (The list does not change after find_frequent_words returns.)
C7_TermList ==
  JustRanked =>
    \A cnt \in { [i \in 1..Len(all_words) |-> Occurrences(all_words, all_words[i])] } :
      LET n == Len(frequent_words)
          firsts == FirstOccurrences(all_words)
          cands == { i \in firsts : cnt[i] >= MIN_FREQUENCY }
          \* the first occurrence of the k-th listed word
          at(k) == First({ i \in firsts : all_words[i] = frequent_words[k][1] })
          Before(i, j) == cnt[i] > cnt[j] \/ (cnt[i] = cnt[j] /\ i < j)
      IN  /\ n = IF Cardinality(cands) > TOP_N_WORDS THEN TOP_N_WORDS
                 ELSE Cardinality(cands)
          /\ \A k \in 1..n :
               /\ at(k) \in cands
               /\ frequent_words[k][2] = cnt[at(k)]
               /\ k < n => Before(at(k), at(k + 1))
          /\ \A i \in cands :
               (\A k \in 1..n : at(k) # i) => (n > 0 /\ Before(at(n), i))

\* the list is cut, holds a tie and a word counted exactly MIN_FREQUENCY
\* times, and a word counted MIN_FREQUENCY - 1 times was collected
C7_Witness ==
  /\ JustRanked
  /\ Len(frequent_words) = TOP_N_WORDS
  /\ Cardinality({ i \in FirstOccurrences(all_words) :
                   Occurrences(all_words, all_words[i]) >= MIN_FREQUENCY })
       > TOP_N_WORDS
  /\ frequent_words[1][2] > MIN_FREQUENCY
  /\ frequent_words[TOP_N_WORDS - 1][2] = MIN_FREQUENCY
  /\ frequent_words[TOP_N_WORDS][2] = MIN_FREQUENCY
  /\ \E i \in 1..Len(all_words) :
       Occurrences(all_words, all_words[i]) = MIN_FREQUENCY - 1

\* the files of the listing whose read did not fail in the analysis
Readable ==
  SelectSeq(markdown_files, LAMBDA f : \A e \in 1..Len(errors) : errors[e] # f)

\* C8: the term list is the one of the corpus without the files whose read
\* failed in the analysis (every other file is read); at the end of a run
\* that annotated, a file whose processing failed has its prior content and
\* every other listed file was processed.
C8_SkipsFailed ==
  /\ JustRanked => frequent_words = RankWords(WordsOfFiles(Readable))
  /\ (pc = "done" /\ words_to_link # <<>>) =>
       /\ \A f \in failed : files[f] = files0[f]
       /\ \A i \in 1..Len(markdown_files) :
            markdown_files[i] \notin failed =>
              \E e \in 1..Len(log) : log[e].file = markdown_files[i]
       /\ modified_count + unchanged_count = Len(markdown_files)

\* C9: a run that ends because the directory does not exist, holds no
\* document or yields no frequent word has called process_markdown_file on
\* no file and left every file as it was.
C9_EarlyHalt ==
  (pc = "done" /\ (~dir_exists \/ markdown_files = <<>> \/ frequent_words = <<>>)) =>
    /\ runs = 0 /\ log = <<>> /\ wfile = 0
    /\ files = files0
    /\ modified_count = 0 /\ unchanged_count = 0

\* documents were read, words collected, none frequent
C9_Witness ==
  /\ pc = "done"
  /\ dir_exists /\ markdown_files # <<>>
  /\ all_words # <<>> /\ errors = <<>>
  /\ frequent_words = <<>>

\* ------------------------------------------------------------------------
\* Property of the annotation of a document that another process reads
\* (SpecConc)
\* ------------------------------------------------------------------------

\* C10: a reader sees the complete content the document had before
\* process_markdown_file rewrote it, or the complete new content.
C10_NoPartialWrite ==
  observed # <<>> =>
    \/ observed[1] = files0[1]
    \/ \E i \in 1..Len(log) :
         /\ log[i].write
         /\ observed[1] = (IF log[i].header
                           THEN log[i].frontmatter \o <<NL>> \o log[i].new_body
                           ELSE log[i].new_body)

\* ------------------------------------------------------------------------
\* Property of what a rewrite adds (SpecDoc)
\* ------------------------------------------------------------------------

\* written is orig with some "[[" and "]]" put in (replace_func's
\* f"[[{matched_text}]]") and nothing else
RECURSIVE BracketsOnly(_, _)
BracketsOnly(orig, written) ==
  \/ orig = <<>> /\ written = <<>>
  \/ /\ orig # <<>> /\ written # <<>>
     /\ Head(orig) = Head(written)
     /\ BracketsOnly(Tail(orig), Tail(written))
  \/ /\ Len(written) >= 2
     /\ SubSeq(written, 1, 2) \in { <<"[", "[">>, <<"]", "]">> }
     /\ BracketsOnly(orig, SubSeq(written, 3, Len(written)))

\* C11: the content a call of process_markdown_file wrote to a document with
\* a header is the content it read with "[[" and "]]" put in and nothing
\* else, and a call whose annotation left the body as it was wrote nothing.
C11_OnlyBracketsAdded ==
  /\ \A i \in 1..runs :
       (log[i].header /\ log[i].write) =>
         BracketsOnly(log[i].content, ContentAfter(i))
  /\ \A i \in 1..Len(log) :
       log[i].new_body = log[i].body => ~log[i].write

====
